---- MODULE Spec2Model ----
(***************************************************************************)
(* A model of brainfuck.py: the translator (parse_ast), what to_function,  *)
(* to_procedure and to_module build from its result and the statements     *)
(* that then execute, and the import hook (BrainfuckImporter,              *)
(* install_import_hook, remove_import_hook) with sys.modules as the        *)
(* loader cache.                                                           *)
(*                                                                         *)
(* Four specifications share the variables: SpecRun follows one source     *)
(* text, the function made from it and the calls of it; SpecSurfaces       *)
(* follows the function, the procedure and the module made from one source *)
(* text, each called once on the same input; Spec follows sys.meta_path    *)
(* and sys.modules under install, remove, load and delete; SpecLoad        *)
(* follows load_module while source files appear and disappear.            *)
(*                                                                         *)
(* Source text is a sequence of one-character strings.  A statement of     *)
(* the generated Python is a record [stmt, body]; stmt is the Python text  *)
(* that _parse_node was given, body is the statement list of a while.      *)
(***************************************************************************)
EXTENDS Integers, Sequences, FiniteSets, TLC

\* ------------------------------------------------------------ bounds

\* longest source text enumerated for to_function
MaxSrcLen == 2
\* calls made on one constructed function
MaxCalls == 3
\* statements executed by one call before the model stops following it
MaxSteps == 14

\* objects (importers and modules) created in one run of the import system
MaxObjects == 2
\* files written or removed by the environment in one run
MaxFsOps == 1

\* ------------------------------------------------------------ translator

\* the characters source texts are drawn from: the eight symbols and a comment
Alphabet == {">", "<", "+", "-", ".", ",", "[", "]", "x"}

\* _parse_node(expression) for a simple statement
ParseNode(expression) == [stmt |-> expression, body |-> <<>>]

\* _parse_node("while memory[data_ptr]: pass"): the body starts as [Pass]
WhileNode == [stmt |-> "while memory[data_ptr]", body |-> <<ParseNode("pass")>>]

\* parse_ast's locals before the scan
ParseInit == [instructions |-> <<>>, instruction_stack |-> <<>>, error |-> "none"]

\* a scan in which the while node holds a copy of the list it was made with,
\* so that what is appended after "[" never reaches the node
ParseCharCopiesBody(st, char) ==
    IF st.error # "none" THEN st
    ELSE CASE char = ">" ->
              [st EXCEPT !.instructions = Append(@, ParseNode("data_ptr += 1"))]
           [] char = "<" ->
              [st EXCEPT !.instructions = Append(@, ParseNode("data_ptr -= 1"))]
           [] char = "+" ->
              [st EXCEPT !.instructions = Append(@, ParseNode("memory[data_ptr] += 1"))]
           [] char = "-" ->
              [st EXCEPT !.instructions = Append(@, ParseNode("memory[data_ptr] -= 1"))]
           [] char = "." ->
              [st EXCEPT !.instructions =
                  Append(@, ParseNode("output.write(chr(memory[data_ptr]))"))]
           [] char = "," ->
              [st EXCEPT !.instructions =
                  @ \o << ParseNode("_tmp = input.read(1)"),
                          ParseNode("memory[data_ptr] = ord(_tmp) if _tmp else -1") >>]
           [] char = "[" ->
              [st EXCEPT !.instructions = WhileNode.body,
                         !.instruction_stack = <<Append(st.instructions, WhileNode)>> \o @]
           [] char = "]" ->
              IF st.instruction_stack = <<>>
              THEN [st EXCEPT !.error = "IndexError"]
              ELSE [st EXCEPT !.instructions = Head(st.instruction_stack),
                              !.instruction_stack = Tail(@)]
           [] OTHER -> st

\* One iteration of parse_ast's for loop.  `instructions` is the list being
\* appended to; the lists on instruction_stack are its ancestors, innermost
\* first (insert(0, ..) / pop(0)).  In Python the last node of the innermost
\* ancestor holds `instructions` itself as its body (node.body is that very
\* list); here the body is written into that node when the list is popped,
\* which is the only moment the ancestor is looked at again.
ParseChar(st, char) ==
    IF st.error # "none" THEN st
    ELSE CASE char = ">" ->
              [st EXCEPT !.instructions = Append(@, ParseNode("data_ptr += 1"))]
           [] char = "<" ->
              [st EXCEPT !.instructions = Append(@, ParseNode("data_ptr -= 1"))]
           [] char = "+" ->
              [st EXCEPT !.instructions = Append(@, ParseNode("memory[data_ptr] += 1"))]
           [] char = "-" ->
              [st EXCEPT !.instructions = Append(@, ParseNode("memory[data_ptr] -= 1"))]
           [] char = "." ->
              [st EXCEPT !.instructions =
                  Append(@, ParseNode("output.write(chr(memory[data_ptr]))"))]
           [] char = "," ->
              [st EXCEPT !.instructions =
                  @ \o << ParseNode("_tmp = input.read(1)"),
                          ParseNode("memory[data_ptr] = ord(_tmp) if _tmp else -1") >>]
           [] char = "[" ->
              [st EXCEPT !.instructions = WhileNode.body,
                         !.instruction_stack = <<Append(st.instructions, WhileNode)>> \o @]
           [] char = "]" ->
              IF st.instruction_stack = <<>>
              THEN [st EXCEPT !.error = "IndexError"]
              ELSE LET parent == Head(st.instruction_stack)
                   IN  [st EXCEPT !.instructions =
                                     [parent EXCEPT ![Len(parent)].body = st.instructions],
                                  !.instruction_stack = Tail(@)]
           [] OTHER -> st

RECURSIVE ParseScan(_, _)
\* the for loop of parse_ast over the rest of the source
ParseScan(st, code) ==
    IF code = <<>> THEN st ELSE ParseScan(ParseChar(st, Head(code)), Tail(code))

\* a parse_ast that takes every character that is not one of the eight for "+"
parse_ast_reads_comments(code) ==
    LET read == [i \in DOMAIN code |->
                    IF code[i] \in {">", "<", "+", "-", ".", ",", "[", "]"}
                    THEN code[i] ELSE "+"]
        st == ParseScan(ParseInit, read)
    IN  IF st.error # "none"
        THEN [kind |-> st.error, value |-> <<>>]
        ELSE [kind |-> "ok", value |-> st.instructions]

\* parse_ast(code): the exception it raises, or the list it returns
parse_ast(code) ==
    LET st == ParseScan(ParseInit, code)
    IN  IF st.error # "none"
        THEN [kind |-> st.error, value |-> <<>>]
        ELSE [kind |-> "ok", value |-> st.instructions]

\* to_function(code): parse_ast's exception propagates; otherwise the function
\* _brainfuck whose body is the prologue, the instructions and the return
to_function(code) ==
    LET instructions == parse_ast(code)
    IN  [kind |-> instructions.kind, surface |-> "function", body |-> instructions.value]

\* to_procedure(code), lines 58-78: the same instructions behind the prologue
\* of _brainfuck(output=None, input=None), and no return statement
to_procedure(code) ==
    LET brainfuck_instructions == parse_ast(code)
    IN  [kind |-> brainfuck_instructions.kind, surface |-> "procedure",
         body |-> brainfuck_instructions.value]

\* to_module(code), lines 81-92: the same instructions as module-level
\* statements behind the imports and the two assignments
to_module(code) ==
    LET instructions == parse_ast(code)
    IN  [kind |-> instructions.kind, surface |-> "module", body |-> instructions.value]

\* ------------------------------------------------------------ state

VARIABLES
    \* -- one source text and the string function constructed from it
    code,           \* the source text given to to_function
    fn,             \* what to_function, to_procedure or to_module returned or raised
    mode,           \* "init", "failed", "idle" (no call active), "running"
    calls,          \* calls and executions of fn made so far
    \* -- the locals of the active (or last) call of _brainfuck
    input_str,      \* the parameter
    data_ptr,
    memory,         \* defaultdict(int): a function on the keys touched so far
    output,         \* the sink the statements write to, a StringIO(): the codes
                    \* of the characters written to it
    input,          \* StringIO(input_str): [buf, pos]
    tmp,            \* _tmp: the codes of the characters read(1) returned
    pc,             \* path of statement indices, outermost first
    steps,          \* statements executed by this call
    result,         \* what the last finished call gave its caller: what it raised,
                    \* the text it returned, and what the caller's sink holds
    \* -- history, for stating the properties
    last,           \* the statement executed by the last step
    nreads,         \* executions of input.read(1) in this call
    results         \* <<input_str, result>> of every finished call of fn

fnVars == <<code, fn, mode, calls>>
callVars == <<input_str, data_ptr, memory, output, input, tmp, pc, steps, result>>
histVars == <<last, nreads, results>>
runVars == <<fnVars, callVars, histVars>>

VARIABLES
    \* -- the process-wide state the import hook works on
    sys_modules,    \* sys.modules: qualified name -> module
    sys_meta_path,  \* sys.meta_path: the list of importers
    importers,      \* the BrainfuckImporter objects constructed so far
    fs,             \* the file system: path -> contents, for the paths that exist
    next_id,        \* the identity the next constructed object gets
    fs_ops,         \* files written or removed so far
    \* -- history, for stating the properties
    ret,            \* the last call: what it was given, did and returned
    returned        \* name -> modules load_module returned since the name's
                    \* cache entry was last deleted

hookVars == <<sys_modules, sys_meta_path, importers, fs, next_id, fs_ops, ret, returned>>

vars == <<runVars, hookVars>>

\* ------------------------------------------------------------ inputs

\* all texts over S of length at most n
Texts(S, n) == UNION {[1..k -> S] : k \in 0..n}

\* programs longer than MaxSrcLen: cat, echo twice, a loop that runs once, a
\* loop that never ends, text after an unclosed loop, arithmetic on two
\* cells left of the start, a loop in a loop that runs, and a loop in a loop
\* between other instructions
SamplePrograms ==
    { <<",", "[", ".", ",", "]">>,
      <<",", ".", ",", ".">>,
      <<"+", "[", "-", "]">>,
      <<"+", "[", "]">>,
      <<"+", "[", "-">>,
      <<"<", "-", "<", "+", "+", "+", ">", "-">>,
      <<"+", "[", "[", "-", "]", "]">>,
      <<"[", ",", "[", ".", "]", ">", "]", "<">> }

Sources == Texts(Alphabet, MaxSrcLen) \cup SamplePrograms

\* the input texts calls are made with, as character codes: the empty text,
\* one character, two characters, and a text that starts with NUL
Inputs == { <<>>, <<1>>, <<1, 2>>, <<0, 2>> }

\* ------------------------------------------------------------ execution

\* chr() accepts 0 .. 0x10FFFF
MaxCodePoint == 1114111

\* defaultdict(int)()
EmptyMemory == [k \in {} |-> 0]

\* memory[k] read: the value, 0 for a missing key
MemGet(m, k) == IF k \in DOMAIN m THEN m[k] ELSE 0

\* memory[k] = v; also what a read does to a missing key, with v = 0
MemSet(m, k, v) == [a \in DOMAIN m \cup {k} |-> IF a = k THEN v ELSE m[a]]

RECURSIVE ListAt(_, _)
\* the statement list that the last index of path points into
ListAt(body, path) ==
    IF Len(path) <= 1 THEN body ELSE ListAt(body[Head(path)].body, Tail(path))

CurList == ListAt(fn.body, pc)
CurIdx == pc[Len(pc)]
AtStmt(s) ==
    /\ mode = "running"
    /\ steps < MaxSteps
    /\ CurIdx <= Len(CurList)
    /\ CurList[CurIdx].stmt = s

\* control moves to the next statement of the same list
Advance == [pc EXCEPT ![Len(pc)] = @ + 1]

\* the bookkeeping every executed statement shares
Executed(s) ==
    /\ steps' = steps + 1
    /\ last' = s
    /\ UNCHANGED <<fnVars, input_str, hookVars>>

\* to_function(code), lines 29-55
ToFunction ==
    /\ mode = "init"
    /\ fn' = to_function(code)
    /\ mode' = IF fn'.kind = "ok" THEN "idle" ELSE "failed"
    /\ UNCHANGED <<code, calls, callVars, histVars, hookVars>>

\* to_procedure(code) on the same source text, as the tests do after the
\* function has been tried
ToProcedure ==
    /\ mode = "idle"
    /\ fn.surface = "function"
    /\ fn' = to_procedure(code)
    /\ UNCHANGED <<code, mode, calls, callVars, histVars, hookVars>>

\* to_module(code) on the same source text, after the procedure
ToModule ==
    /\ mode = "idle"
    /\ fn.surface = "procedure"
    /\ fn' = to_module(code)
    /\ UNCHANGED <<code, mode, calls, callVars, histVars, hookVars>>

\* a prologue that keeps the tape of the call before (the tape as a global)
PrologueKeepsTape(x) ==
    /\ input_str' = x
    /\ data_ptr' = 0
    /\ memory' = memory
    /\ output' = <<>>
    /\ input' = [buf |-> x, pos |-> 0]

\* the prologue of _brainfuck(input_str), lines 34-46
Prologue(x) ==
    /\ input_str' = x
    /\ data_ptr' = 0
    /\ memory' = EmptyMemory
    /\ output' = <<>>
    /\ input' = [buf |-> x, pos |-> 0]

\* a procedure that is given a source but takes the default, an empty stdin
ProcedurePrologueDefaultsInput(x) ==
    /\ input_str' = x
    /\ data_ptr' = 0
    /\ memory' = EmptyMemory
    /\ output' = <<>>
    /\ input' = [buf |-> <<>>, pos |-> 0]

\* func(out_, in_) with out_, in_ = StringIO(), StringIO(input_str): the
\* prologue of _brainfuck(output, input), lines 64-72, with both streams given
ProcedurePrologue(x) ==
    /\ input_str' = x
    /\ data_ptr' = 0
    /\ memory' = EmptyMemory
    /\ output' = <<>>
    /\ input' = [buf |-> x, pos |-> 0]

\* the module executed while sys.stdout, sys.stdin are StringIO(),
\* StringIO(input_str): the module's first four statements, lines 84-87
ModulePrologue(x) ==
    /\ input_str' = x
    /\ data_ptr' = 0
    /\ memory' = EmptyMemory
    /\ output' = <<>>
    /\ input' = [buf |-> x, pos |-> 0]

\* a call f(x) of the constructed function, a call of the constructed
\* procedure on a new sink and a source holding x, or an execution of the
\* module with such a sink and source as stdout and stdin
CallWith(x) ==
    /\ mode = "idle"
    /\ calls < MaxCalls
    /\ CASE fn.surface = "function" -> Prologue(x)
         [] fn.surface = "procedure" -> ProcedurePrologue(x)
         [] fn.surface = "module" -> ModulePrologue(x)
    /\ mode' = "running"
    /\ calls' = calls + 1
    /\ pc' = <<1>>
    /\ steps' = 0
    /\ nreads' = 0
    /\ last' = "call"
    /\ UNCHANGED <<code, fn, tmp, result, results, hookVars>>

\* a call with any of the input texts
Call == \E x \in Inputs : CallWith(x)

\* the one call that _test makes of each of the three, all with the same
\* input_str
TestCall ==
    /\ \A r \in results : r[2].surface # fn.surface
    /\ \E x \in Inputs :
          /\ results # {} => x = input_str
          /\ CallWith(x)

\* ">": data_ptr += 1
MoveRight ==
    /\ AtStmt("data_ptr += 1")
    /\ data_ptr' = data_ptr + 1
    /\ pc' = Advance
    /\ Executed("data_ptr += 1")
    /\ UNCHANGED <<memory, output, input, tmp, result, nreads, results>>

\* "<": data_ptr -= 1
MoveLeft ==
    /\ AtStmt("data_ptr -= 1")
    /\ data_ptr' = data_ptr - 1
    /\ pc' = Advance
    /\ Executed("data_ptr -= 1")
    /\ UNCHANGED <<memory, output, input, tmp, result, nreads, results>>

\* "+": memory[data_ptr] += 1
Increment ==
    /\ AtStmt("memory[data_ptr] += 1")
    /\ memory' = MemSet(memory, data_ptr, MemGet(memory, data_ptr) + 1)
    /\ pc' = Advance
    /\ Executed("memory[data_ptr] += 1")
    /\ UNCHANGED <<data_ptr, output, input, tmp, result, nreads, results>>

\* a decrement on eight-bit cells
DecrementWraps ==
    /\ AtStmt("memory[data_ptr] -= 1")
    /\ memory' = MemSet(memory, data_ptr, (MemGet(memory, data_ptr) - 1) % 256)
    /\ pc' = Advance
    /\ Executed("memory[data_ptr] -= 1")
    /\ UNCHANGED <<data_ptr, output, input, tmp, result, nreads, results>>

\* "-": memory[data_ptr] -= 1
Decrement ==
    /\ AtStmt("memory[data_ptr] -= 1")
    /\ memory' = MemSet(memory, data_ptr, MemGet(memory, data_ptr) - 1)
    /\ pc' = Advance
    /\ Executed("memory[data_ptr] -= 1")
    /\ UNCHANGED <<data_ptr, output, input, tmp, result, nreads, results>>

\* what the caller has when a call ends by returning (kind "ok") or by an
\* exception: only the function returns a text, and only on return; the
\* procedure and the module leave what they wrote in the caller's sink
Outcome(kind) ==
    [kind |-> kind,
     surface |-> fn.surface,
     text |-> IF fn.surface = "function" /\ kind = "ok" THEN output ELSE <<>>,
     sink |-> IF fn.surface = "function" THEN <<>> ELSE output]

\* what a call that ends leaves behind
Finish(r) ==
    /\ mode' = "idle"
    /\ result' = r
    /\ results' = results \cup {<<input_str, r>>}
    /\ UNCHANGED <<code, fn, calls, input_str, hookVars>>

\* an Output whose failure hands the text written so far to the caller
OutputKeepsText ==
    /\ AtStmt("output.write(chr(memory[data_ptr]))")
    /\ memory' = MemSet(memory, data_ptr, MemGet(memory, data_ptr))
    /\ steps' = steps + 1
    /\ last' = "output.write(chr(memory[data_ptr]))"
    /\ IF MemGet(memory, data_ptr) \in 0..MaxCodePoint
       THEN /\ output' = Append(output, MemGet(memory, data_ptr))
            /\ pc' = Advance
            /\ UNCHANGED <<fnVars, input_str, result, results>>
            /\ UNCHANGED hookVars
       ELSE /\ Finish([Outcome("ValueError") EXCEPT !.text = output])
            /\ UNCHANGED <<output, pc>>
    /\ UNCHANGED <<data_ptr, input, tmp, nreads>>

\* ".": output.write(chr(memory[data_ptr])); chr raises ValueError outside
\* 0 .. 0x10FFFF and the exception leaves _brainfuck
Output ==
    /\ AtStmt("output.write(chr(memory[data_ptr]))")
    /\ memory' = MemSet(memory, data_ptr, MemGet(memory, data_ptr))
    /\ steps' = steps + 1
    /\ last' = "output.write(chr(memory[data_ptr]))"
    /\ IF MemGet(memory, data_ptr) \in 0..MaxCodePoint
       THEN /\ output' = Append(output, MemGet(memory, data_ptr))
            /\ pc' = Advance
            /\ UNCHANGED <<fnVars, input_str, result, results>>
            /\ UNCHANGED hookVars
       ELSE /\ Finish(Outcome("ValueError"))
            /\ UNCHANGED <<output, pc>>
    /\ UNCHANGED <<data_ptr, input, tmp, nreads>>

\* a read(1) that does not move the stream's position
Read1Peek(stream) ==
    IF stream.pos < Len(stream.buf)
    THEN [text |-> <<stream.buf[stream.pos + 1]>>, stream |-> stream]
    ELSE [text |-> <<>>, stream |-> stream]

\* StringIO.read(1): the next character and the stream after it, or the empty
\* text at end of stream
Read1(stream) ==
    IF stream.pos < Len(stream.buf)
    THEN [text |-> <<stream.buf[stream.pos + 1]>>,
          stream |-> [stream EXCEPT !.pos = @ + 1]]
    ELSE [text |-> <<>>, stream |-> stream]

\* ",", first statement: _tmp = input.read(1)
InputRead ==
    /\ AtStmt("_tmp = input.read(1)")
    /\ tmp' = Read1(input).text
    /\ input' = Read1(input).stream
    /\ nreads' = nreads + 1
    /\ pc' = Advance
    /\ Executed("_tmp = input.read(1)")
    /\ UNCHANGED <<data_ptr, memory, output, result, results>>

\* ord(_tmp) if _tmp else -1
OrdOrEof(t) == IF t # <<>> THEN t[1] ELSE -1

\* ",", second statement: memory[data_ptr] = ord(_tmp) if _tmp else -1
InputStore ==
    /\ AtStmt("memory[data_ptr] = ord(_tmp) if _tmp else -1")
    /\ memory' = MemSet(memory, data_ptr, OrdOrEof(tmp))
    /\ pc' = Advance
    /\ Executed("memory[data_ptr] = ord(_tmp) if _tmp else -1")
    /\ UNCHANGED <<data_ptr, output, input, tmp, result, nreads, results>>

\* a test that takes only a positive cell for true
WhileTestPositive ==
    /\ AtStmt("while memory[data_ptr]")
    /\ memory' = MemSet(memory, data_ptr, MemGet(memory, data_ptr))
    /\ pc' = IF MemGet(memory, data_ptr) > 0 THEN Append(pc, 1) ELSE Advance
    /\ Executed("while memory[data_ptr]")
    /\ UNCHANGED <<data_ptr, output, input, tmp, result, nreads, results>>

\* "[": the test of while memory[data_ptr]; true enters the body, false
\* goes on after the loop
WhileTest ==
    /\ AtStmt("while memory[data_ptr]")
    /\ memory' = MemSet(memory, data_ptr, MemGet(memory, data_ptr))
    /\ pc' = IF MemGet(memory, data_ptr) # 0 THEN Append(pc, 1) ELSE Advance
    /\ Executed("while memory[data_ptr]")
    /\ UNCHANGED <<data_ptr, output, input, tmp, result, nreads, results>>

\* the pass that every while body starts with
Pass ==
    /\ AtStmt("pass")
    /\ pc' = Advance
    /\ Executed("pass")
    /\ UNCHANGED <<data_ptr, memory, output, input, tmp, result, nreads, results>>

\* a body that is left for good at its end, as the body of an if would be
EndOfBodyLeavesLoop ==
    /\ mode = "running"
    /\ CurIdx > Len(CurList)
    /\ Len(pc) > 1
    /\ pc' = [SubSeq(pc, 1, Len(pc) - 1) EXCEPT ![Len(pc) - 1] = @ + 1]
    /\ UNCHANGED <<fnVars, input_str, data_ptr, memory, output, input, tmp, steps,
                   result, histVars, hookVars>>

\* the end of a while body: control returns to the test
EndOfBody ==
    /\ mode = "running"
    /\ CurIdx > Len(CurList)
    /\ Len(pc) > 1
    /\ pc' = SubSeq(pc, 1, Len(pc) - 1)
    /\ UNCHANGED <<fnVars, input_str, data_ptr, memory, output, input, tmp, steps,
                   result, histVars, hookVars>>

\* return output.getvalue(), line 48; the end of the procedure's body; the
\* end of the module
Return ==
    /\ mode = "running"
    /\ CurIdx > Len(CurList)
    /\ Len(pc) = 1
    /\ Finish(Outcome("ok"))
    /\ UNCHANGED <<data_ptr, memory, output, input, tmp, pc, steps, last, nreads>>


\* ------------------------------------------------------------ import hook

\* sys.path, as lists of path segments: "" (the current directory) and
\* "programs", which the tests append
sys_path == << <<>>, <<"programs">> >>

\* the qualified names imported, as their dotted parts: hello, subdir.subhello
ModuleNames == { <<"hello">>, <<"subdir", "subhello">> }

\* BrainfuckImporter's default file_extensions
DefaultExtensions == <<"bf", "b">>

\* the file_extensions an importer is constructed with: the default, and a
\* file_extensions keyword argument that puts "b" first
ExtensionChoices == { DefaultExtensions, <<"b", "bf">> }

\* what the files hold: an unmatched "]", an unclosed "[", and cat
FileCodes == { <<"+", "]">>, <<"+", "[">>, <<",", "[", ".", ",", "]">> }

\* an importer that is not a BrainfuckImporter (the host's own finders)
OtherImporter(n) == [id |-> 0 - n, kind |-> "other", file_extensions |-> <<>>]

\* the importer field of a call that was given none
NoImporter == [id |-> 0, kind |-> "none", file_extensions |-> <<>>]

\* BrainfuckImporter(file_extensions=...), lines 170-173
BrainfuckImporter(id, file_extensions) ==
    [id |-> id, kind |-> "BrainfuckImporter", file_extensions |-> file_extensions]

\* isinstance(x, BrainfuckImporter)
IsBrainfuckImporter(x) == x.kind = "BrainfuckImporter"

\* os.path.join(base_path?, *parts[:-1], "{}.{}".format(parts[-1], extension)),
\* lines 202-210: the directories and the file name's two halves
CandidatePath(base_path, parts, extension) ==
    [dirs |-> (IF base_path # <<>> THEN base_path ELSE <<>>)
                  \o SubSeq(parts, 1, Len(parts) - 1),
     stem |-> parts[Len(parts)],
     ext  |-> extension]

\* None, where a path is expected
NoPath == [dirs |-> <<>>, stem |-> "", ext |-> ""]

\* the paths _find_module_path tries, in the order it tries them: for each
\* base_path of sys.path, for each extension
Candidates(file_extensions, parts) ==
    [i \in 1..(Len(sys_path) * Len(file_extensions)) |->
        CandidatePath(sys_path[((i - 1) \div Len(file_extensions)) + 1],
                      parts,
                      file_extensions[((i - 1) % Len(file_extensions)) + 1])]

\* a lookup that tries every directory for one extension before it goes on to
\* the next extension
find_module_path_extension_major(self, fullname, files) ==
    LET exts == self.file_extensions
        cands == [i \in 1..(Len(exts) * Len(sys_path)) |->
                     CandidatePath(sys_path[((i - 1) % Len(sys_path)) + 1],
                                   fullname,
                                   exts[((i - 1) \div Len(sys_path)) + 1])]
        hits  == {i \in DOMAIN cands : cands[i] \in DOMAIN files}
    IN  IF hits = {}
        THEN [found |-> FALSE, path |-> NoPath]
        ELSE [found |-> TRUE,
              path  |-> cands[CHOOSE i \in hits : \A j \in hits : i <= j]]

\* BrainfuckImporter._find_module_path, lines 198-213: the first candidate
\* that exists, or None
find_module_path(self, fullname, files) ==
    LET cands == Candidates(self.file_extensions, fullname)
        hits  == {i \in DOMAIN cands : cands[i] \in DOMAIN files}
    IN  IF hits = {}
        THEN [found |-> FALSE, path |-> NoPath]
        ELSE [found |-> TRUE,
              path  |-> cands[CHOOSE i \in hits : \A j \in hits : i <= j]]

\* every path some importer can try
AllPaths ==
    { CandidatePath(sys_path[b], n, e[k]) :
        b \in DOMAIN sys_path, n \in ModuleNames,
        e \in ExtensionChoices, k \in 1..2 }

\* None, where a module is expected
NoModule == [id |-> 0, name |-> <<>>, code |-> <<>>, function |-> <<>>,
             func_name |-> "", loader |-> 0]

\* BrainfuckModule(fullname, code), lines 154-160, and module.__loader__ = self
BrainfuckModule(id, fullname, source, self) ==
    [id |-> id, name |-> fullname, code |-> source,
     function |-> to_function(source).body,
     func_name |-> fullname[Len(fullname)],
     loader |-> self.id]

\* lines 181-183: the name is in sys.modules
CachedLoad(fullname, modules) ==
    [raised |-> "none", module |-> modules[fullname], modules |-> modules,
     cached |-> TRUE, effects |-> {}, path |-> NoPath, code |-> <<>>]

\* a failed lookup that leaves the name bound to an empty module
NotFoundBindsName(fullname, modules) ==
    [raised |-> "ImportError", module |-> NoModule,
     modules |-> [n \in DOMAIN modules \cup {fullname} |->
                     IF n = fullname THEN NoModule ELSE modules[n]],
     cached |-> FALSE, effects |-> {"_find_module_path"}, path |-> NoPath,
     code |-> <<>>]

\* lines 185-187: _find_module_path returned None
NotFound(fullname, modules) ==
    [raised |-> "ImportError", module |-> NoModule, modules |-> modules,
     cached |-> FALSE, effects |-> {"_find_module_path"}, path |-> NoPath,
     code |-> <<>>]

\* lines 188-196: read the file, construct the module (to_function's exception
\* propagates), bind it in sys.modules
LoadFile(self, fullname, modules, files, id, path) ==
    LET source == files[path]
        function == to_function(source)
        module == BrainfuckModule(id, fullname, source, self)
    IN  IF function.kind # "ok"
        THEN [raised |-> function.kind, module |-> NoModule, modules |-> modules,
              cached |-> FALSE,
              effects |-> {"_find_module_path", "read", "to_function"},
              path |-> path, code |-> source]
        ELSE [raised |-> "none", module |-> module,
              modules |-> [n \in DOMAIN modules \cup {fullname} |->
                              IF n = fullname THEN module ELSE modules[n]],
              cached |-> FALSE,
              effects |-> {"_find_module_path", "read", "to_function"},
              path |-> path, code |-> source]

\* a load_module without the cache lookup of lines 181-183
load_module_uncached(self, fullname, modules, files, id) ==
    LET found == find_module_path(self, fullname, files)
    IN  IF ~found.found
        THEN NotFound(fullname, modules)
        ELSE LoadFile(self, fullname, modules, files, id, found.path)

\* BrainfuckImporter.load_module, lines 180-196, as a function of the state it
\* reads: what it raises or returns, sys.modules afterwards, and which of
\* _find_module_path, the file read and to_function it called
load_module(self, fullname, modules, files, id) ==
    IF fullname \in DOMAIN modules
    THEN CachedLoad(fullname, modules)
    ELSE LET found == find_module_path(self, fullname, files)
         IN  IF ~found.found
             THEN NotFound(fullname, modules)
             ELSE LoadFile(self, fullname, modules, files, id, found.path)

\* the indices of the BrainfuckImporters in a meta path
HookIndices(meta_path) == {i \in DOMAIN meta_path : IsBrainfuckImporter(meta_path[i])}

\* the index the for loops of lines 229-232 and 241-244 stop at
FirstHook(meta_path) ==
    CHOOSE i \in HookIndices(meta_path) : \A j \in HookIndices(meta_path) : i <= j

\* del sys.meta_path[i]
DeleteAt(list, i) == SubSeq(list, 1, i - 1) \o SubSeq(list, i + 1, Len(list))

\* an install_import_hook that always appends
install_import_hook_appends(meta_path, importer) ==
    [meta_path |-> Append(meta_path, importer),
     value |-> HookIndices(meta_path) = {}]

\* an install_import_hook that deletes the first BrainfuckImporter and puts
\* the new one at the end of the list
install_import_hook_moves_to_end(meta_path, importer) ==
    IF HookIndices(meta_path) # {}
    THEN [meta_path |-> Append(DeleteAt(meta_path, FirstHook(meta_path)), importer),
          value |-> FALSE]
    ELSE [meta_path |-> Append(meta_path, importer), value |-> TRUE]

\* install_import_hook, lines 229-234, given the importer of lines 226-227
install_import_hook(meta_path, importer) ==
    IF HookIndices(meta_path) # {}
    THEN [meta_path |-> [meta_path EXCEPT ![FirstHook(meta_path)] = importer],
          value |-> FALSE]
    ELSE [meta_path |-> Append(meta_path, importer), value |-> TRUE]

\* a remove_import_hook that deletes the last BrainfuckImporter
remove_import_hook_last(meta_path) ==
    IF HookIndices(meta_path) # {}
    THEN [meta_path |->
             DeleteAt(meta_path, CHOOSE i \in HookIndices(meta_path) :
                                     \A j \in HookIndices(meta_path) : j <= i),
          value |-> TRUE]
    ELSE [meta_path |-> meta_path, value |-> FALSE]

\* remove_import_hook, lines 237-245
remove_import_hook(meta_path) ==
    IF HookIndices(meta_path) # {}
    THEN [meta_path |-> DeleteAt(meta_path, FirstHook(meta_path)), value |-> TRUE]
    ELSE [meta_path |-> meta_path, value |-> FALSE]

\* the record of a call that is not load_module
NoLoad == [raised |-> "none", module |-> NoModule, cached |-> FALSE, effects |-> {},
           path |-> NoPath, code |-> <<>>]

\* what the history keeps of a call: the operation, the importer and the name
\* it was given, the value it returned, and for load_module what it raised, the
\* module it returned, whether the name was cached and what it called
Ret(op, self, name, value, load) ==
    [op |-> op, self |-> self, name |-> name, value |-> value,
     raised |-> load.raised,
     module |-> load.module, cached |-> load.cached, effects |-> load.effects,
     path |-> load.path, code |-> load.code]

\* install_import_hook(importer) with an importer the caller holds
InstallGiven ==
    /\ \E importer \in importers :
          LET r == install_import_hook(sys_meta_path, importer)
          IN  /\ sys_meta_path' = r.meta_path
              /\ ret' = Ret("install_import_hook", importer, <<>>, r.value, NoLoad)
    /\ UNCHANGED <<sys_modules, importers, fs, next_id, fs_ops, returned, runVars>>

\* install_import_hook(**kwargs): the importer is constructed at line 227
InstallDefault ==
    /\ next_id <= MaxObjects
    /\ \E e \in ExtensionChoices :
          LET importer == BrainfuckImporter(next_id, e)
              r == install_import_hook(sys_meta_path, importer)
          IN  /\ importers' = importers \cup {importer}
              /\ sys_meta_path' = r.meta_path
              /\ ret' = Ret("install_import_hook", importer, <<>>, r.value, NoLoad)
    /\ next_id' = next_id + 1
    /\ UNCHANGED <<sys_modules, fs, fs_ops, returned, runVars>>

\* a remove_import_hook() that also forgets the modules loaded so far
RemoveHookDropsModules ==
    /\ LET r == remove_import_hook(sys_meta_path)
       IN  /\ sys_meta_path' = r.meta_path
           /\ ret' = Ret("remove_import_hook", NoImporter, <<>>, r.value, NoLoad)
    /\ sys_modules' = <<>>
    /\ UNCHANGED <<importers, fs, next_id, fs_ops, returned, runVars>>

\* remove_import_hook()
RemoveHook ==
    /\ LET r == remove_import_hook(sys_meta_path)
       IN  /\ sys_meta_path' = r.meta_path
           /\ ret' = Ret("remove_import_hook", NoImporter, <<>>, r.value, NoLoad)
    /\ UNCHANGED <<sys_modules, importers, fs, next_id, fs_ops, returned, runVars>>

\* importer.load_module(fullname), on any importer the caller holds, whether
\* or not it is on sys.meta_path
LoadModule ==
    /\ \E self \in importers, fullname \in ModuleNames :
          LET r == load_module(self, fullname, sys_modules, fs, next_id)
          IN  /\ (r.raised = "none" /\ ~r.cached) => next_id <= MaxObjects
              /\ sys_modules' = r.modules
              /\ next_id' = IF r.raised = "none" /\ ~r.cached
                            THEN next_id + 1 ELSE next_id
              /\ ret' = Ret("load_module", self, fullname, TRUE, r)
              /\ returned' = IF r.raised = "none"
                             THEN [returned EXCEPT ![fullname] = @ \cup {r.module}]
                             ELSE returned
    /\ UNCHANGED <<sys_meta_path, importers, fs, fs_ops, runVars>>

\* del sys.modules[key], as the tests' tearDown does
DelModule ==
    /\ \E key \in DOMAIN sys_modules :
          /\ sys_modules' = [n \in DOMAIN sys_modules \ {key} |-> sys_modules[n]]
          /\ returned' = [returned EXCEPT ![key] = {}]
          /\ ret' = Ret("del sys.modules[key]", NoImporter, key, TRUE, NoLoad)
    /\ UNCHANGED <<sys_meta_path, importers, fs, next_id, fs_ops, runVars>>

\* the environment writes a source file
WriteFile ==
    /\ fs_ops < MaxFsOps
    /\ \E path \in AllPaths, source \in FileCodes :
          fs' = [q \in DOMAIN fs \cup {path} |-> IF q = path THEN source ELSE fs[q]]
    /\ fs_ops' = fs_ops + 1
    /\ ret' = Ret("write", NoImporter, <<>>, TRUE, NoLoad)
    /\ UNCHANGED <<sys_modules, sys_meta_path, importers, next_id, returned, runVars>>

\* the environment removes a source file
RemoveFile ==
    /\ fs_ops < MaxFsOps
    /\ \E path \in DOMAIN fs : fs' = [q \in DOMAIN fs \ {path} |-> fs[q]]
    /\ fs_ops' = fs_ops + 1
    /\ ret' = Ret("unlink", NoImporter, <<>>, TRUE, NoLoad)
    /\ UNCHANGED <<sys_modules, sys_meta_path, importers, next_id, returned, runVars>>

\* the meta paths a run starts from: empty; the host's finders with a
\* BrainfuckImporter installed among them before; and a list to which the
\* caller added two BrainfuckImporters itself (sys.meta_path is a plain list)
InitialMetaPaths ==
    { <<>>,
      <<OtherImporter(1), BrainfuckImporter(0 - 3, DefaultExtensions), OtherImporter(2)>>,
      <<BrainfuckImporter(0 - 3, DefaultExtensions), OtherImporter(1),
        BrainfuckImporter(0 - 4, <<"b", "bf">>)>> }

\* the file systems a run starts from: no source file anywhere, and the
\* tests' layout, programs/hello.bf and programs/subdir/subhello.bf
InitialFiles ==
    { <<>>,
      [q \in {CandidatePath(<<"programs">>, n, "bf") : n \in ModuleNames} |->
          <<",", "[", ".", ",", "]">>] }

\* the values the import hook's state has while a string function is followed
HookIdle ==
    /\ sys_modules = <<>>
    /\ sys_meta_path = <<>>
    /\ importers = {}
    /\ fs = <<>>
    /\ next_id = 1
    /\ fs_ops = 0
    /\ ret = Ret("none", NoImporter, <<>>, TRUE, NoLoad)
    /\ returned = [n \in ModuleNames |-> {}]

\* the values the string function's state has while the import hook is followed
RunIdle ==
    /\ code = <<>>
    /\ fn = [kind |-> "none", surface |-> "function", body |-> <<>>]
    /\ mode = "off"
    /\ calls = 0
    /\ input_str = <<>>
    /\ data_ptr = 0
    /\ memory = EmptyMemory
    /\ output = <<>>
    /\ input = [buf |-> <<>>, pos |-> 0]
    /\ tmp = <<>>
    /\ pc = <<1>>
    /\ steps = 0
    /\ result = [kind |-> "none", surface |-> "function", text |-> <<>>, sink |-> <<>>]
    /\ last = "none"
    /\ nreads = 0
    /\ results = {}

Init ==
    /\ RunIdle
    /\ sys_modules = <<>>
    /\ sys_meta_path \in InitialMetaPaths
    /\ importers = {x \in {sys_meta_path[i] : i \in DOMAIN sys_meta_path} :
                       IsBrainfuckImporter(x)}
    /\ fs \in InitialFiles
    /\ next_id = 1
    /\ fs_ops = 0
    /\ ret = Ret("none", NoImporter, <<>>, TRUE, NoLoad)
    /\ returned = [n \in ModuleNames |-> {}]

\* the import hook installed, replaced and removed, and modules loaded and
\* deleted, over a file system that stays as it is
Next ==
    \/ InstallGiven
    \/ InstallDefault
    \/ RemoveHook
    \/ LoadModule
    \/ DelModule

Spec == Init /\ [][Next]_vars

\* two importers the caller holds, one of them installed
LoadInit ==
    /\ RunIdle
    /\ sys_modules = <<>>
    /\ sys_meta_path = <<OtherImporter(1), BrainfuckImporter(0 - 3, DefaultExtensions)>>
    /\ importers = { BrainfuckImporter(0 - 3, DefaultExtensions),
                     BrainfuckImporter(0 - 4, <<"b", "bf">>) }
    /\ fs \in InitialFiles
    /\ next_id = 1
    /\ fs_ops = 0
    /\ ret = Ret("none", NoImporter, <<>>, TRUE, NoLoad)
    /\ returned = [n \in ModuleNames |-> {}]

\* modules loaded and deleted while the environment writes and removes files
LoadNext ==
    \/ LoadModule
    \/ DelModule
    \/ WriteFile
    \/ RemoveFile

SpecLoad == LoadInit /\ [][LoadNext]_vars

\* the specification of one source text, its string function and the calls of it
RunInit ==
    /\ code \in Sources
    /\ HookIdle
    /\ fn = [kind |-> "none", surface |-> "function", body |-> <<>>]
    /\ mode = "init"
    /\ calls = 0
    /\ input_str = <<>>
    /\ data_ptr = 0
    /\ memory = EmptyMemory
    /\ output = <<>>
    /\ input = [buf |-> <<>>, pos |-> 0]
    /\ tmp = <<>>
    /\ pc = <<1>>
    /\ steps = 0
    /\ result = [kind |-> "none", surface |-> "function", text |-> <<>>, sink |-> <<>>]
    /\ last = "none"
    /\ nreads = 0
    /\ results = {}

\* one step of the active call: a statement, the end of a while body, or
\* the end of the call
Step ==
    \/ MoveRight
    \/ MoveLeft
    \/ Increment
    \/ Decrement
    \/ Output
    \/ InputRead
    \/ InputStore
    \/ WhileTest
    \/ Pass
    \/ EndOfBody
    \/ Return

RunNext ==
    \/ ToFunction
    \/ Call
    \/ Step

SpecRun == RunInit /\ [][RunNext]_vars

\* _test: the function, the procedure and the module made from one source
\* text, each called once on the same input
SurfaceNext ==
    \/ ToFunction
    \/ ToProcedure
    \/ ToModule
    \/ TestCall
    \/ Step

\* a call runs on its caller's thread until it returns or raises: Python goes
\* on to the next statement as long as there is one
SpecSurfaces == RunInit /\ [][SurfaceNext]_vars /\ WF_vars(Step)

\* ------------------------------------------------------------ properties

RECURSIVE ClosesUnopened(_, _)
\* a "]" occurs in src while depth loops are open and none of them is left
ClosesUnopened(src, depth) ==
    IF src = <<>> THEN FALSE
    ELSE CASE Head(src) = "]" -> depth = 0 \/ ClosesUnopened(Tail(src), depth - 1)
           [] Head(src) = "[" -> ClosesUnopened(Tail(src), depth + 1)
           [] OTHER -> ClosesUnopened(Tail(src), depth)

\* the number of "[" minus the number of "]" in src
RECURSIVE OpenCount(_)
OpenCount(src) ==
    IF src = <<>> THEN 0
    ELSE OpenCount(Tail(src)) + (CASE Head(src) = "[" -> 1
                                   [] Head(src) = "]" -> -1
                                   [] OTHER -> 0)

\* C1: a source text in which a "]" is scanned while no "[" is open makes
\* the translation fail with a ParseError, and no function is constructed.
C1_UnmatchedCloseIsParseError ==
    (mode # "init" /\ ClosesUnopened(code, 0))
        => (mode = "failed" /\ fn.kind = "ParseError")

\* C2: a source text that reaches its end with a "[" still open makes the
\* translation fail with a ParseError instead of returning instructions.
C2_UnclosedOpenIsParseError ==
    (mode # "init" /\ ~ClosesUnopened(code, 0) /\ OpenCount(code) > 0)
        => (mode = "failed" /\ fn.kind = "ParseError")

\* the number of BrainfuckImporters on sys.meta_path
HookCount == Cardinality({i \in DOMAIN sys_meta_path : IsBrainfuckImporter(sys_meta_path[i])})

\* no base path / extension combination of the importer names an existing file
NoCandidateExists(self, fullname) ==
    \A b \in DOMAIN sys_path, k \in DOMAIN self.file_extensions :
        CandidatePath(sys_path[b], fullname, self.file_extensions[k]) \notin DOMAIN fs

\* C3: a load_module of a name that an earlier load_module returned a module
\* for, with no deletion of the name's sys.modules entry in between, returns
\* that same module, and calls none of _find_module_path, the file read and
\* to_function; sys.modules stays as it is.
C3_SecondLoadReturnsSameModule ==
    [][ (ret'.op = "load_module" /\ returned[ret'.name] # {}) =>
            /\ ret'.raised = "none"
            /\ returned[ret'.name] = {ret'.module}
            /\ ret'.effects = {}
            /\ sys_modules' = sys_modules ]_vars

\* a second load_module of a name returned the module of the first although
\* the importer would no longer find a file for the name
C3_Witness ==
    /\ ret.op = "load_module"
    /\ ret.raised = "none"
    /\ ret.effects = {}
    /\ returned[ret.name] = {ret.module}
    /\ sys_modules[ret.name] = ret.module
    /\ NoCandidateExists(ret.self, ret.name)

\* C4: if sys.meta_path holds at most one BrainfuckImporter before a step it
\* holds at most one after it; install_import_hook returns True exactly when
\* none was present, and the list is then one longer, and False exactly when
\* one was present, and the list then keeps its length; after an install on a
\* list with at most one there is exactly one.
C4_InstallKeepsAtMostOne ==
    [][ /\ (HookCount <= 1 => HookCount' <= 1)
        /\ ret'.op = "install_import_hook" =>
              /\ ret'.value = (HookCount = 0)
              /\ Len(sys_meta_path') =
                    Len(sys_meta_path) + (IF HookCount = 0 THEN 1 ELSE 0)
              /\ (HookCount <= 1 => HookCount' = 1) ]_vars

\* an install replaced the BrainfuckImporter that stood between the host's
\* finders by a newly constructed one and returned False
C4_Witness ==
    /\ ret.op = "install_import_hook"
    /\ ret.value = FALSE
    /\ ret.self.id > 0
    /\ Len(sys_meta_path) = 3
    /\ HookCount = 1
    /\ sys_meta_path[2] = ret.self

\* C5: remove_import_hook deletes the first BrainfuckImporter of
\* sys.meta_path, keeping every other entry in order, and returns True; when
\* there is none it returns False and the list is unchanged; a list that held
\* at most one holds none afterwards.
C5_RemoveDeletesFirst ==
    [][ ret'.op = "remove_import_hook" =>
          IF \E i \in DOMAIN sys_meta_path : IsBrainfuckImporter(sys_meta_path[i])
          THEN /\ ret'.value = TRUE
               /\ \E k \in DOMAIN sys_meta_path :
                     /\ IsBrainfuckImporter(sys_meta_path[k])
                     /\ \A j \in 1..(k - 1) : ~IsBrainfuckImporter(sys_meta_path[j])
                     /\ sys_meta_path' =
                           SubSeq(sys_meta_path, 1, k - 1)
                              \o SubSeq(sys_meta_path, k + 1, Len(sys_meta_path))
               /\ (HookCount <= 1 => HookCount' = 0)
          ELSE /\ ret'.value = FALSE
               /\ sys_meta_path' = sys_meta_path ]_vars

\* a remove on a list with two BrainfuckImporters returned True and left the
\* second of them
C5_Witness ==
    /\ ret.op = "remove_import_hook"
    /\ ret.value = TRUE
    /\ Len(sys_meta_path) = 2
    /\ ~IsBrainfuckImporter(sys_meta_path[1])
    /\ IsBrainfuckImporter(sys_meta_path[2])
    /\ sys_meta_path[2].file_extensions = <<"b", "bf">>

\* C6: remove_import_hook leaves sys.modules as it is; every name that
\* load_module returned a module for (and that was not deleted since) is bound
\* in sys.modules to that module, and a load_module of such a name while no
\* BrainfuckImporter is on sys.meta_path returns that module.
C6_RemoveKeepsLoadedModules ==
    [][ /\ ret'.op = "remove_import_hook" => sys_modules' = sys_modules
        /\ \A n \in ModuleNames :
              returned'[n] # {} =>
                  (n \in DOMAIN sys_modules' /\ returned'[n] = {sys_modules'[n]})
        /\ (ret'.op = "load_module" /\ HookCount = 0 /\ returned[ret'.name] # {}) =>
              (ret'.raised = "none" /\ returned[ret'.name] = {ret'.module}) ]_vars

\* with the hook removed, load_module on the importer that loaded a name
\* returned the module it had loaded before
C6_Witness ==
    /\ ret.op = "load_module"
    /\ ret.raised = "none"
    /\ ret.cached
    /\ HookCount = 0
    /\ ret.module.loader = ret.self.id
    /\ sys_modules[ret.name] = ret.module

\* C7: a load_module of a name that is not in sys.modules, on an importer for
\* which no base path / extension combination names an existing file, raises
\* ImportError and leaves sys.modules as it was.
C7_NotFoundRaisesImportError ==
    [][ (/\ ret'.op = "load_module"
         /\ ret'.name \notin DOMAIN sys_modules
         /\ NoCandidateExists(ret'.self, ret'.name)) =>
            (ret'.raised = "ImportError" /\ sys_modules' = sys_modules) ]_vars

\* a load_module raised ImportError for one name while the other name was
\* loaded and source files existed
C7_Witness ==
    /\ ret.op = "load_module"
    /\ ret.raised = "ImportError"
    /\ ret.name \notin DOMAIN sys_modules
    /\ NoCandidateExists(ret.self, ret.name)
    /\ DOMAIN sys_modules # {}
    /\ fs # <<>>

\* C8: a load_module that reads a source file whose loop markers are
\* unbalanced raises ParseError and binds no module to the name.
C8_UnbalancedFileIsParseError ==
    (/\ ret.op = "load_module"
     /\ "read" \in ret.effects
     /\ (ClosesUnopened(ret.code, 0) \/ OpenCount(ret.code) # 0)) =>
        (ret.raised = "ParseError" /\ ret.name \notin DOMAIN sys_modules)

ReadStmt == "_tmp = input.read(1)"
StoreStmt == "memory[data_ptr] = ord(_tmp) if _tmp else -1"

\* C9: the i-th Input executed by a call sets the current cell to the code of
\* the i-th character of the input text when there is one and to -1 when
\* there is none; neither of its two statements ends the call, and after the
\* read the store is the next statement.
C9_InputStoresCodeOrSentinel ==
    /\ (mode = "running" /\ last = StoreStmt) =>
            /\ data_ptr \in DOMAIN memory
            /\ memory[data_ptr] = IF nreads <= Len(input_str)
                                  THEN input_str[nreads] ELSE -1
    /\ last = ReadStmt =>
            /\ mode = "running"
            /\ CurIdx <= Len(CurList)
            /\ CurList[CurIdx].stmt = StoreStmt
    /\ (last \in {ReadStmt, StoreStmt} /\ mode = "idle") => result.kind = "ok"

\* a call has read one character, met the end of the stream on its second
\* Input and stored the sentinel
C9_Witness ==
    /\ mode = "running"
    /\ last = StoreStmt
    /\ nreads = 2
    /\ Len(input_str) = 1
    /\ memory[data_ptr] = -1

\* C10: every call starts from an empty tape, data pointer 0, an empty sink
\* and a source holding that call's input at its start, and all finished
\* calls of one function (or procedure, or module) on the same input gave the
\* same result, whatever
\* calls came before them (the first call is the one on a fresh function).
C10_CallsDoNotInterfere ==
    /\ (mode = "running" /\ last = "call") =>
            /\ data_ptr = 0
            /\ memory = EmptyMemory
            /\ output = <<>>
            /\ input = [buf |-> input_str, pos |-> 0]
    /\ \A r1, r2 \in results :
          (r1[1] = r2[1] /\ r1[2].surface = r2[2].surface) => r1[2] = r2[2]

\* the third call repeats the first call's input after a call on another
\* input that wrote to the tape and the sink, and gave the same text again
C10_Witness ==
    /\ calls = 3
    /\ mode = "idle"
    /\ Cardinality(results) = 2
    /\ result.kind = "ok"
    /\ result.text # <<>>
    /\ \E r \in results : r[1] # input_str /\ r[2].text # <<>> /\ r[2] # result


\* the eight characters parse_ast has a branch for
Symbols == {">", "<", "+", "-", ".", ",", "[", "]"}

\* src with every character that is not one of the eight deleted
Restrict(src) == SelectSeq(src, LAMBDA c : c \in Symbols)

\* C12: the translation of a source text is the translation of the text with
\* every character other than the eight symbols deleted: the same exception,
\* or the same instruction list.
C12_CommentsAreIgnored ==
    mode # "init" =>
        /\ fn.kind = parse_ast(Restrict(code)).kind
        /\ fn.body = parse_ast(Restrict(code)).value

\* a function was made from a text that holds a comment character and a symbol
C12_Witness ==
    /\ mode = "idle"
    /\ Restrict(code) # code
    /\ Restrict(code) # <<>>
    /\ fn.body # <<>>

WhileStmt == "while memory[data_ptr]"

\* C13: a loop test on a cell that is 0 goes on after the loop without
\* entering the body, and on any other cell enters the body at its first
\* statement; control leaves a body only from behind its last statement and
\* then stands at the loop's test again, with the tape, the pointer and the
\* streams as the body left them; statements that are not tests are followed
\* by the next statement of the same list; and after a test that ends a loop
\* the cell under the data pointer is 0.
C13_LoopIsWhile ==
    [][ /\ (mode = "running" /\ steps' = steps + 1 /\ last' = WhileStmt) =>
              /\ pc' = IF MemGet(memory, data_ptr) = 0
                       THEN [pc EXCEPT ![Len(pc)] = @ + 1]
                       ELSE pc \o <<1>>
              /\ data_ptr' = data_ptr
              /\ \A k \in DOMAIN memory : memory'[k] = memory[k]
              /\ (mode' = "running" /\ Len(pc') = Len(pc)) =>
                     MemGet(memory', data_ptr') = 0
        /\ (mode = "running" /\ mode' = "running" /\ Len(pc') > Len(pc)) =>
              last' = WhileStmt
        /\ (mode = "running" /\ mode' = "running" /\ Len(pc') < Len(pc)) =>
              /\ pc[Len(pc)] = Len(ListAt(fn.body, pc)) + 1
              /\ pc' = SubSeq(pc, 1, Len(pc) - 1)
              /\ ListAt(fn.body, pc')[pc'[Len(pc')]].stmt = WhileStmt
              /\ <<data_ptr, memory, output, input>>' = <<data_ptr, memory, output, input>>
        /\ (mode = "running" /\ mode' = "running" /\ steps' = steps + 1
                /\ last' # WhileStmt) =>
              pc' = [pc EXCEPT ![Len(pc)] = @ + 1] ]_vars

\* a loop whose body ran has ended: the last statement executed is the test
\* of a top-level loop, control stands behind the loop, and the cell is 0
C13_Witness ==
    /\ mode = "running"
    /\ last = WhileStmt
    /\ Len(pc) = 1
    /\ steps >= 5
    /\ pc[1] > 1
    /\ fn.body[pc[1] - 1].stmt = WhileStmt
    /\ Len(fn.body[pc[1] - 1].body) > 1
    /\ MemGet(memory, data_ptr) = 0

\* the number of ">" minus the number of "<" in src
RECURSIVE NetPointer(_)
NetPointer(src) ==
    IF src = <<>> THEN 0
    ELSE NetPointer(Tail(src)) + (CASE Head(src) = ">" -> 1
                                    [] Head(src) = "<" -> -1
                                    [] OTHER -> 0)

\* the number of "+" minus the number of "-" that src, read from address ptr
\* on, applies to address k
RECURSIVE NetCell(_, _, _)
NetCell(src, ptr, k) ==
    IF src = <<>> THEN 0
    ELSE CASE Head(src) = ">" -> NetCell(Tail(src), ptr + 1, k)
           [] Head(src) = "<" -> NetCell(Tail(src), ptr - 1, k)
           [] Head(src) = "+" -> NetCell(Tail(src), ptr, k) + (IF ptr = k THEN 1 ELSE 0)
           [] Head(src) = "-" -> NetCell(Tail(src), ptr, k) - (IF ptr = k THEN 1 ELSE 0)
           [] OTHER -> NetCell(Tail(src), ptr, k)

\* src has no symbol other than > < + -
OnlyArithmetic(src) == \A i \in DOMAIN src : src[i] \in {">", "<", "+", "-", "x"}

\* C16: "+" and "-" change the current cell by exactly +1 and -1 as integers
\* and leave every other cell and the pointer alone; ">" and "<" change the
\* pointer by exactly +1 and -1, below 0 as well; a cell never written reads
\* as 0; and when a call of a program of > < + - alone has returned, the
\* pointer is the number of ">" minus the number of "<" and every cell is the
\* number of "+" minus the number of "-" applied to it.
C16_CellsAndPointerAreIntegers ==
    [][ /\ (mode = "running" /\ steps' = steps + 1) =>
              /\ last' = "memory[data_ptr] += 1" =>
                    /\ memory'[data_ptr] =
                          (IF data_ptr \in DOMAIN memory THEN memory[data_ptr] ELSE 0) + 1
                    /\ \A k \in DOMAIN memory' \ {data_ptr} :
                          k \in DOMAIN memory /\ memory'[k] = memory[k]
                    /\ data_ptr' = data_ptr
              /\ last' = "memory[data_ptr] -= 1" =>
                    /\ memory'[data_ptr] =
                          (IF data_ptr \in DOMAIN memory THEN memory[data_ptr] ELSE 0) - 1
                    /\ \A k \in DOMAIN memory' \ {data_ptr} :
                          k \in DOMAIN memory /\ memory'[k] = memory[k]
                    /\ data_ptr' = data_ptr
              /\ last' = "data_ptr += 1" =>
                    (data_ptr' = data_ptr + 1 /\ memory' = memory)
              /\ last' = "data_ptr -= 1" =>
                    (data_ptr' = data_ptr - 1 /\ memory' = memory)
              /\ (last' = "output.write(chr(memory[data_ptr]))"
                     /\ data_ptr \notin DOMAIN memory) =>
                    output' = Append(output, 0)
        /\ (mode' = "idle" /\ calls' > 0 /\ OnlyArithmetic(code')) =>
              /\ result'.kind = "ok"
              /\ data_ptr' = NetPointer(code')
              /\ \A k \in DOMAIN memory' : memory'[k] = NetCell(code', 0, k)
              /\ \A k \in (0 - Len(code'))..Len(code') :
                    k \notin DOMAIN memory' => NetCell(code', 0, k) = 0 ]_vars

\* a call has returned with the pointer left of the start, a cell below -1
\* under it and a cell above 1 at another negative address
C16_Witness ==
    /\ mode = "idle"
    /\ calls > 0
    /\ OnlyArithmetic(code)
    /\ data_ptr < 0
    /\ data_ptr \in DOMAIN memory
    /\ memory[data_ptr] < 0 - 1
    /\ \E k \in DOMAIN memory : k < 0 /\ memory[k] > 1

OutputStmt == "output.write(chr(memory[data_ptr]))"

\* C18: an Output executed while the current cell is negative writes nothing
\* and ends the call with a ValueError, and the caller of the string function
\* gets no text, whatever the call had written before; an Output on a cell
\* in 0 .. 0x10FFFF appends that one code and the call goes on.
C18_OutputOfNegativeCellRaises ==
    [][ (mode = "running" /\ steps' = steps + 1 /\ last' = OutputStmt) =>
          LET cell == IF data_ptr \in DOMAIN memory THEN memory[data_ptr] ELSE 0
          IN  /\ cell < 0 =>
                    /\ mode' = "idle"
                    /\ output' = output
                    /\ result'.kind = "ValueError"
                    /\ result'.text = <<>>
                    /\ <<input_str, result'>> \in results'
              /\ cell \in 0..MaxCodePoint =>
                    /\ mode' = "running"
                    /\ output' = output \o <<cell>>
                    /\ results' = results ]_vars

\* a call that had written text met the end-of-input sentinel in an Output
\* and gave its caller a ValueError and no text
C18_Witness ==
    /\ mode = "idle"
    /\ last = OutputStmt
    /\ result.kind = "ValueError"
    /\ result.text = <<>>
    /\ output # <<>>
    /\ nreads > Len(input_str)
    /\ memory[data_ptr] = 0 - 1

\* the file that directory b of sys.path and extension k of the importer give
\* for a name: the directory, the name's parent segments, and the last
\* segment with the extension
FileFor(self, fullname, b, k) ==
    [dirs |-> sys_path[b] \o SubSeq(fullname, 1, Len(fullname) - 1),
     stem |-> fullname[Len(fullname)],
     ext  |-> self.file_extensions[k]]

\* C14: a load_module that looks for a file raises ImportError exactly when
\* no directory / extension combination names an existing file; otherwise
\* the path it reads is an existing one, of directory b and extension k, such
\* that every other existing combination has a later directory, or the same
\* directory and a later extension.
C14_ResolveIsDirectoryMajor ==
    (ret.op = "load_module" /\ "_find_module_path" \in ret.effects) =>
        LET self == ret.self
            B == DOMAIN sys_path
            K == DOMAIN self.file_extensions
            Exists(b, k) == FileFor(self, ret.name, b, k) \in DOMAIN fs
        IN  IF \A b \in B, k \in K : ~Exists(b, k)
            THEN ret.raised = "ImportError" /\ "read" \notin ret.effects
            ELSE /\ ret.raised # "ImportError"
                 /\ "read" \in ret.effects
                 /\ \E b \in B, k \in K :
                       /\ Exists(b, k)
                       /\ ret.path = FileFor(self, ret.name, b, k)
                       /\ \A b2 \in B, k2 \in K :
                             Exists(b2, k2) => (b < b2 \/ (b = b2 /\ k <= k2))

\* a load read the file of the first directory and the importer's second
\* extension while the second directory held a file with the first extension
C14_Witness ==
    /\ ret.op = "load_module"
    /\ "read" \in ret.effects
    /\ ret.path = FileFor(ret.self, ret.name, 1, 2)
    /\ FileFor(ret.self, ret.name, 2, 1) \in DOMAIN fs

\* C19: an install_import_hook on a list that holds a BrainfuckImporter puts
\* the new importer at the index of the first one and leaves every other
\* index, BrainfuckImporter or not, holding the object it held; on a list
\* that holds none it leaves every index as it was and adds the new importer
\* behind the last; and it leaves sys.modules as it was.
C19_InstallChangesOneSlot ==
    [][ ret'.op = "install_import_hook" =>
          /\ sys_modules' = sys_modules
          /\ IF \E i \in DOMAIN sys_meta_path : sys_meta_path[i].kind = "BrainfuckImporter"
             THEN /\ Len(sys_meta_path') = Len(sys_meta_path)
                  /\ \E k \in DOMAIN sys_meta_path :
                        /\ sys_meta_path[k].kind = "BrainfuckImporter"
                        /\ \A j \in 1..(k - 1) :
                              sys_meta_path[j].kind # "BrainfuckImporter"
                        /\ sys_meta_path'[k] = ret'.self
                        /\ \A j \in DOMAIN sys_meta_path \ {k} :
                              sys_meta_path'[j] = sys_meta_path[j]
             ELSE /\ Len(sys_meta_path') = Len(sys_meta_path) + 1
                  /\ sys_meta_path'[Len(sys_meta_path')] = ret'.self
                  /\ \A j \in DOMAIN sys_meta_path :
                        sys_meta_path'[j] = sys_meta_path[j] ]_vars

\* an install put a newly constructed importer into the first slot of a list
\* whose third slot holds another BrainfuckImporter, with a module in the cache
C19_Witness ==
    /\ ret.op = "install_import_hook"
    /\ ret.self.id > 0
    /\ Len(sys_meta_path) = 3
    /\ sys_meta_path[1] = ret.self
    /\ sys_meta_path[2].kind = "other"
    /\ sys_meta_path[3].kind = "BrainfuckImporter"
    /\ sys_meta_path[3] # ret.self
    /\ DOMAIN sys_modules # {}

\* every "]" of src closes a "[" and no "[" stays open
Balanced(src) == ~ClosesUnopened(src, 0) /\ OpenCount(src) = 0

RECURSIVE Serialize(_)
\* the source text of a statement list: one symbol per statement, "," for
\* the read and the store together, "[" and "]" around what follows the pass
\* of a while body, and "?" for a statement where none of these can stand
Serialize(list) ==
    IF list = <<>> THEN <<>>
    ELSE LET h == Head(list)
             t == Tail(list)
         IN  CASE h.stmt = "data_ptr += 1" -> <<">">> \o Serialize(t)
               [] h.stmt = "data_ptr -= 1" -> <<"<">> \o Serialize(t)
               [] h.stmt = "memory[data_ptr] += 1" -> <<"+">> \o Serialize(t)
               [] h.stmt = "memory[data_ptr] -= 1" -> <<"-">> \o Serialize(t)
               [] h.stmt = OutputStmt -> <<".">> \o Serialize(t)
               [] h.stmt = ReadStmt /\ t # <<>> /\ Head(t).stmt = StoreStmt ->
                     <<",">> \o Serialize(Tail(t))
               [] h.stmt = WhileStmt /\ h.body # <<>> /\ Head(h.body).stmt = "pass" ->
                     <<"[">> \o Serialize(Tail(h.body)) \o <<"]">> \o Serialize(t)
               [] OTHER -> <<"?">> \o Serialize(t)

RECURSIVE TreeDepth(_)
\* how deep the while statements of a statement list are nested
TreeDepth(list) ==
    IF list = <<>> THEN 0
    ELSE LET here == IF Head(list).stmt = WhileStmt
                     THEN 1 + TreeDepth(Head(list).body) ELSE 0
             rest == TreeDepth(Tail(list))
         IN  IF here > rest THEN here ELSE rest

RECURSIVE BracketDepth(_, _)
\* the largest number of "[" open at once in src, read with depth open
BracketDepth(src, depth) ==
    IF src = <<>> THEN depth
    ELSE LET d == CASE Head(src) = "[" -> depth + 1
                    [] Head(src) = "]" -> depth - 1
                    [] OTHER -> depth
             rest == BracketDepth(Tail(src), d)
         IN  IF depth > rest THEN depth ELSE rest

\* C15: a source text with balanced loop markers is translated without an
\* exception, the scan ends with instruction_stack empty and what is returned
\* is the top-level list; written back as source text the list is the
\* source restricted to the eight symbols (one while per "[" ... "]" pair,
\* holding after its pass exactly what stands between the two markers), and
\* the whiles are nested as deep as the markers.
C15_BalancedSourceRoundTrips ==
    (mode # "init" /\ Balanced(code)) =>
        /\ fn.kind = "ok"
        /\ ParseScan(ParseInit, code).instruction_stack = <<>>
        /\ fn.body = ParseScan(ParseInit, code).instructions
        /\ Serialize(fn.body) = Restrict(code)
        /\ TreeDepth(fn.body) = BracketDepth(code, 0)

\* a function was made from a balanced text with a loop in a loop and
\* instructions before, in, and after the loops
C15_Witness ==
    /\ mode = "idle"
    /\ Balanced(code)
    /\ TreeDepth(fn.body) = 2
    /\ Len(fn.body) = 2
    /\ Len(fn.body[1].body) > 3
    /\ Serialize(fn.body) = code

\* the text a finished call produced, as its caller sees it: the returned
\* text of the function, the contents of the sink for the other two
Observed(r) == IF r.surface = "function" THEN r.text ELSE r.sink

\* C11 as stated: for every source text and input, the text the function
\* returned, the text the procedure wrote to its sink and the text the module
\* wrote to stdout are the same.
C11_SurfacesAgreeAlways ==
    \A r1, r2 \in results : r1[1] = r2[1] => Observed(r1[2]) = Observed(r2[2])

\* C11, amended: for one source text and one input, the function, the
\* procedure and the module all return or all raise the same exception; when
\* they return, the text the function returned is the text in the
\* procedure's sink and in the module's stdout; when they raise, the two
\* sinks hold the same text, which is what was written before the raise,
\* and the function's caller gets no text.
C11_SurfacesAgree ==
    \A r1, r2 \in results :
        r1[1] = r2[1] =>
            /\ r1[2].kind = r2[2].kind
            /\ r1[2].kind = "ok" => Observed(r1[2]) = Observed(r2[2])
            /\ (r1[2].surface # "function" /\ r2[2].surface # "function") =>
                  r1[2].sink = r2[2].sink
            /\ (r1[2].surface = "function" /\ r1[2].kind # "ok") => r1[2].text = <<>>

\* the function, the procedure and the module of one source text have each
\* finished a call on the same input and produced the same text of two
\* characters
C11_Witness ==
    /\ mode = "idle"
    /\ fn.surface = "module"
    /\ calls = 3
    /\ \E x \in Inputs :
          /\ \A sf \in {"function", "procedure", "module"} :
                \E r \in results : r[1] = x /\ r[2].surface = sf /\ r[2].kind = "ok"
          /\ result.sink = x
          /\ Len(x) = 2

\* the constructed program has no while statement
LoopFree == fn.kind = "ok" /\ \A i \in DOMAIN fn.body : fn.body[i].stmt # WhileStmt

\* the source text is one step on the cell and an empty loop: +[] or -[]
Spins == Restrict(code) \in { <<"+", "[", "]">>, <<"-", "[", "]">> }

\* in a call of a program without a while, the statements executed so far
\* are the first `steps` statements of the program, in their order
InSourceOrder == (mode = "running" /\ LoopFree) => pc = <<steps + 1>>

\* a call is never left standing: while it has not ended, a step of it can
\* be taken (the bound MaxSteps is where the model stops following a call)
NoStepBound == (mode = "running" /\ steps < MaxSteps) => ENABLED Step

\* a call of +[] or -[] has not ended and cannot: after the first statement
\* the cell is not 0 and control is in the loop
SpinsForever ==
    Spins => /\ results = {}
             /\ (mode = "running" /\ steps >= 1) =>
                    (pc[1] = 2 /\ data_ptr = 0 /\ MemGet(memory, 0) # 0)

\* C17 as stated: a call is never stopped by a step bound; a call of a
\* program without a while executes the program's statements in their order,
\* always ends, and when it has ended has executed every statement exactly
\* once; a call of +[] never ends.
C17_LoopFreeRunsEveryInstruction ==
    /\ []NoStepBound
    /\ []InSourceOrder
    /\ ((mode = "running" /\ LoopFree) ~> (mode = "idle"))
    /\ []((mode = "idle" /\ calls > 0 /\ LoopFree) => steps = Len(fn.body))
    /\ []SpinsForever

\* C17, amended: a call is never stopped by a step bound; a call of a
\* program without a while executes the program's statements in their order,
\* each at most once, and always ends: it returns when it has executed every
\* statement exactly once, or it raises ValueError at an Output whose cell
\* is not a code point, and the statements after that Output are not
\* executed; a call of +[] never ends.
C17_LoopFreeTerminates ==
    /\ []NoStepBound
    /\ []InSourceOrder
    /\ ((mode = "running" /\ LoopFree) ~> (mode = "idle"))
    /\ []((mode = "idle" /\ calls > 0 /\ LoopFree) =>
             \/ result.kind = "ok" /\ steps = Len(fn.body)
             \/ /\ result.kind = "ValueError"
                /\ steps <= Len(fn.body)
                /\ fn.body[steps].stmt = OutputStmt
                /\ MemGet(memory, data_ptr) \notin 0..MaxCodePoint)
    /\ []SpinsForever

\* a call of a program of six statements and no while has returned after
\* six steps with the text it wrote
C17_Witness ==
    /\ mode = "idle"
    /\ LoopFree
    /\ result.kind = "ok"
    /\ Len(fn.body) = 6
    /\ steps = 6
    /\ output # <<>>

====
